---- MODULE Spec2Model ----
(***************************************************************************)
(* Model of terraform-provider-bash: the bash_script data source, its      *)
(* configuration decoder/validator (newBashScriptConfig) and its encoder   *)
(* (variablesToBashDecls, bashQuoteString).                                *)
(*                                                                         *)
(* Text is modelled byte by byte: a Go string is a sequence of             *)
(* one-character strings.                                                  *)
(***************************************************************************)
EXTENDS Integers, Sequences, FiniteSets, TLC

VARIABLES
    request,    \* the request under service (fixed for a behaviour)
    response,   \* the response of the last provider handler, or NoResponse
    calls,      \* the package functions the last handler invoked, in order
    decls,      \* text returned by the last direct variablesToBashDecls call
    fnIn,       \* argument of the string functions
    fnOut       \* results of the string functions applied to fnIn

vars == <<request, response, calls, decls, fnIn, fnOut>>

None == "none"

----------------------------------------------------------------------------
(* Bounds *)

MaxLen == 3        \* longest argument given to the string functions
MaxVars == 2       \* most variables in one "variables" object

----------------------------------------------------------------------------
(* Bytes and text *)

\* The byte value of a character (ASCII), for comparisons and range tests.
Code(c) ==
    CASE c = "\n" -> 10
      [] c = " "  -> 32
      [] c = "!"  -> 33
      [] c = "\"" -> 34
      [] c = "#"  -> 35
      [] c = "'"  -> 39
      [] c = "("  -> 40
      [] c = ")"  -> 41
      [] c = "-"  -> 45
      [] c = "."  -> 46
      [] c = "/"  -> 47
      [] c = "0"  -> 48
      [] c = "1"  -> 49
      [] c = "2"  -> 50
      [] c = "3"  -> 51
      [] c = "4"  -> 52
      [] c = "5"  -> 53
      [] c = "6"  -> 54
      [] c = "7"  -> 55
      [] c = "8"  -> 56
      [] c = "9"  -> 57
      [] c = ":"  -> 58
      [] c = "="  -> 61
      [] c = "@"  -> 64
      [] c = "A"  -> 65
      [] c = "Z"  -> 90
      [] c = "["  -> 91
      [] c = "\\" -> 92
      [] c = "^"  -> 94
      [] c = "_"  -> 95
      [] c = "a"  -> 97
      [] c = "b"  -> 98
      [] c = "c"  -> 99
      [] c = "d"  -> 100
      [] c = "e"  -> 101
      [] c = "h"  -> 104
      [] c = "i"  -> 105
      [] c = "k"  -> 107
      [] c = "l"  -> 108
      [] c = "n"  -> 110
      [] c = "o"  -> 111
      [] c = "r"  -> 114
      [] c = "x"  -> 120
      [] c = "y"  -> 121
      [] c = "z"  -> 122
      [] c = "{"  -> 123

\* All texts over the characters A of length at most n.
StrsUpTo(A, n) == UNION {[1..k -> A] : k \in 0..n}

\* Go's string comparison s < t: bytewise lexicographic order.
RECURSIVE StringLess(_, _)
StringLess(s, t) ==
    IF t = <<>> THEN FALSE
    ELSE IF s = <<>> THEN TRUE
    ELSE IF Code(Head(s)) # Code(Head(t)) THEN Code(Head(s)) < Code(Head(t))
    ELSE StringLess(Tail(s), Tail(t))

\* strings.HasPrefix
HasPrefix(s, prefix) ==
    /\ Len(s) >= Len(prefix)
    /\ SubSeq(s, 1, Len(prefix)) = prefix

\* strings.ReplaceAll(s, old, new) for a non-empty old: non-overlapping
\* occurrences of old, scanned from the left, are replaced by new.
RECURSIVE ReplaceAll(_, _, _)
ReplaceAll(s, old, new) ==
    IF s = <<>> THEN <<>>
    ELSE IF HasPrefix(s, old)
         THEN new \o ReplaceAll(SubSeq(s, Len(old) + 1, Len(s)), old, new)
         ELSE <<Head(s)>> \o ReplaceAll(Tail(s), old, new)

----------------------------------------------------------------------------
(* variables.go: quoting and variable names *)

bashQuoteString_NoEscape(s) == <<"'">> \o s \o <<"'">>

bashQuoteString(s) ==
    <<"'">> \o ReplaceAll(s, <<"'">>, <<"'", "\\", "'", "'">>) \o <<"'">>

validVariableNameInitialCharacter_NoUnderscore(c) ==
    \/ Code(c) >= Code("A") /\ Code(c) <= Code("Z")
    \/ Code(c) >= Code("a") /\ Code(c) <= Code("z")

validVariableNameInitialCharacter(c) ==
    \/ c = "_"
    \/ Code(c) >= Code("A") /\ Code(c) <= Code("Z")
    \/ Code(c) >= Code("a") /\ Code(c) <= Code("z")

validVariableNameSubsequentCharacter(c) ==
    \/ validVariableNameInitialCharacter(c)
    \/ Code(c) >= Code("0") /\ Code(c) <= Code("9")

validVariableName(s) ==
    /\ Len(s) # 0
    /\ \A i \in 1..Len(s) :
          IF i = 1 THEN validVariableNameInitialCharacter(s[i])
                   ELSE validVariableNameSubsequentCharacter(s[i])

----------------------------------------------------------------------------
(* tftypes values, as far as the provider inspects them.  typ is the       *)
(* Terraform type that Value.Is tests; the other fields carry the payload  *)
(* that Value.As extracts (unused ones stay empty).                        *)

Value(typ, str, tenths, elems, entries) ==
    [typ |-> typ, str |-> str, tenths |-> tenths, elems |-> elems,
     entries |-> entries]

StringVal(s)   == Value("String", s, 0, <<>>, <<>>)
\* A number n/10: big.Float holds both whole and fractional numbers.
NumberVal(n)   == Value("Number", <<>>, n, <<>>, <<>>)
ListVal(l)     == Value("ListOfString", <<>>, 0, l, <<>>)
\* entries: a function from key text to value text.
MapVal(m)      == Value("MapOfString", <<>>, 0, <<>>, m)
OtherVal(typ)  == Value(typ, <<>>, 0, <<>>, <<>>)

\* Value.Is(t)
Is(val, typ) == val.typ = typ

\* big.Float.IsInt
IsInt(tenths) == tenths % 10 = 0

Digit(d) ==
    CASE d = 0 -> "0" [] d = 1 -> "1" [] d = 2 -> "2" [] d = 3 -> "3"
      [] d = 4 -> "4" [] d = 5 -> "5" [] d = 6 -> "6" [] d = 7 -> "7"
      [] d = 8 -> "8" [] d = 9 -> "9"

RECURSIVE NatText(_)
NatText(n) ==
    IF n < 10 THEN <<Digit(n)>> ELSE NatText(n \div 10) \o <<Digit(n % 10)>>

\* big.Float.Text('f', -1): plain decimal notation with the fewest digits
\* that represent the number, no exponent.
FloatText(tenths) ==
    LET a == IF tenths < 0 THEN 0 - tenths ELSE tenths
    IN  (IF tenths < 0 THEN <<"-">> ELSE <<>>)
        \o NatText(a \div 10)
        \o (IF a % 10 # 0 THEN <<".", Digit(a % 10)>> ELSE <<>>)

\* fmt's %q verb: a double-quoted Go string literal.
RECURSIVE GoEscape(_)
GoEscape(s) ==
    IF s = <<>> THEN <<>>
    ELSE (CASE Head(s) = "\"" -> <<"\\", "\"">>
            [] Head(s) = "\\" -> <<"\\", "\\">>
            [] Head(s) = "\n" -> <<"\\", "n">>
            [] OTHER -> <<Head(s)>>)
         \o GoEscape(Tail(s))

GoQuote(s) == <<"\"">> \o GoEscape(s) \o <<"\"">>

\* The orders in which a Go range statement may visit the keys S of a map.
Orderings(S) ==
    {o \in [1..Cardinality(S) -> S] : \A i, j \in DOMAIN o : i # j => o[i] # o[j]}

\* sort.Strings
RECURSIVE Insert(_, _)
Insert(sorted, s) ==
    IF sorted = <<>> THEN <<s>>
    ELSE IF StringLess(s, Head(sorted)) THEN <<s>> \o sorted
    ELSE <<Head(sorted)>> \o Insert(Tail(sorted), s)

RECURSIVE SortStrings(_)
SortStrings(names) ==
    IF names = <<>> THEN <<>>
    ELSE Insert(SortStrings(Tail(names)), Head(names))

----------------------------------------------------------------------------
(* variables.go: variablesToBashDecls *)

DeclString == <<"d", "e", "c", "l", "a", "r", "e", " ", "-", "r", " ">>
DeclNumber == <<"d", "e", "c", "l", "a", "r", "e", " ", "-", "r", "i", " ">>
DeclList   == <<"d", "e", "c", "l", "a", "r", "e", " ", "-", "r", "a", " ">>
DeclMap    == <<"d", "e", "c", "l", "a", "r", "e", " ", "-", "r", "A", " ">>
ErrorPrefix == <<"#", " ", "E", "R", "R", "O", "R", ":", " ", "D", "o", "n", "'", "t", " ", "k", "n", "o", "w", " ", "h", "o", "w", " ", "t", "o", " ", "s", "e", "r", "i", "a", "l", "i", "z", "e", " ">>
ErrorSuffix == <<" ", "f", "o", "r", " ", "b", "a", "s", "h", "\n">>

\* The names of vars in the order the loop visits them: collected in the
\* map's iteration order, then sorted.
declNames_Unsorted(order) == order

declNames(order) == SortStrings(order)

\* The elements of a list, quoted and separated by spaces (the inner loop of
\* the list case).
RECURSIVE listBody_LeadingSpace(_, _)
listBody_LeadingSpace(l, i) ==
    IF i > Len(l) THEN <<>>
    ELSE <<" ">> \o bashQuoteString(l[i]) \o listBody_LeadingSpace(l, i + 1)

RECURSIVE listBody(_, _)
listBody(l, i) ==
    IF i > Len(l) THEN <<>>
    ELSE (IF i # 1 THEN <<" ">> ELSE <<>>)
         \o bashQuoteString(l[i])
         \o listBody(l, i + 1)

\* The entries of a map, visited in the order keyOrder (the inner loop of
\* the map case).
RECURSIVE mapBody_FirstValue(_, _, _)
mapBody_FirstValue(m, keyOrder, i) ==
    IF i > Len(keyOrder) THEN <<>>
    ELSE (IF i # 1 THEN <<" ">> ELSE <<>>) \o bashQuoteString(keyOrder[i]) \o <<" ">>
         \o bashQuoteString(m[keyOrder[1]]) \o mapBody_FirstValue(m, keyOrder, i + 1)

RECURSIVE mapBody(_, _, _)
mapBody(m, keyOrder, i) ==
    IF i > Len(keyOrder) THEN <<>>
    ELSE (IF i # 1 THEN <<" ">> ELSE <<>>)
         \o bashQuoteString(keyOrder[i])
         \o <<" ">>
         \o bashQuoteString(m[keyOrder[i]])
         \o mapBody(m, keyOrder, i + 1)

declFor_NoFallback(name, val, keyOrder) ==
    CASE Is(val, "String") ->
           DeclString \o name \o <<"=">> \o bashQuoteString(val.str) \o <<"\n">>
      [] Is(val, "Number") ->
           DeclNumber \o name \o <<"=">> \o FloatText(val.tenths) \o <<"\n">>
      [] Is(val, "ListOfString") ->
           DeclList \o name \o <<"=", "(">> \o listBody(val.elems, 1) \o <<")", "\n">>
      [] Is(val, "MapOfString") ->
           DeclMap \o name \o <<"=", "(">> \o mapBody(val.entries, keyOrder, 1)
                   \o <<")", "\n">>
      [] OTHER -> <<>>

declFor_NumberAsString(name, val, keyOrder) ==
    CASE Is(val, "String") ->
           DeclString \o name \o <<"=">> \o bashQuoteString(val.str) \o <<"\n">>
      [] Is(val, "Number") ->
           DeclString \o name \o <<"=">> \o FloatText(val.tenths) \o <<"\n">>
      [] Is(val, "ListOfString") ->
           DeclList \o name \o <<"=", "(">> \o listBody(val.elems, 1) \o <<")", "\n">>
      [] Is(val, "MapOfString") ->
           DeclMap \o name \o <<"=", "(">> \o mapBody(val.entries, keyOrder, 1)
                   \o <<")", "\n">>
      [] OTHER ->
           ErrorPrefix \o GoQuote(name) \o ErrorSuffix

\* What one iteration of the loop over names writes to buf.
declFor(name, val, keyOrder) ==
    CASE Is(val, "String") ->
           DeclString \o name \o <<"=">> \o bashQuoteString(val.str) \o <<"\n">>
      [] Is(val, "Number") ->
           DeclNumber \o name \o <<"=">> \o FloatText(val.tenths) \o <<"\n">>
      [] Is(val, "ListOfString") ->
           DeclList \o name \o <<"=", "(">> \o listBody(val.elems, 1) \o <<")", "\n">>
      [] Is(val, "MapOfString") ->
           DeclMap \o name \o <<"=", "(">> \o mapBody(val.entries, keyOrder, 1)
                   \o <<")", "\n">>
      [] OTHER ->
           ErrorPrefix \o GoQuote(name) \o ErrorSuffix

RECURSIVE writeDecls(_, _, _, _)
writeDecls(v, names, keyOrders, i) ==
    IF i > Len(names) THEN <<>>
    ELSE declFor(names[i], v[names[i]], keyOrders[names[i]])
         \o writeDecls(v, names, keyOrders, i + 1)

\* v: the variables (a function from name to value).  nameOrder: the order
\* in which range visits v.  keyOrders[name]: the order in which range visits
\* the entries of the map-of-strings variable name.
variablesToBashDecls(v, nameOrder, keyOrders) ==
    IF Cardinality(DOMAIN v) = 0 THEN <<>>
    ELSE writeDecls(v, declNames(nameOrder), keyOrders, 1)

\* The orders in which range may visit the entries of each map-of-strings
\* variable of v during one call.
KeyOrderings(v) ==
    {ko \in [DOMAIN v -> UNION {Orderings(DOMAIN v[n].entries) : n \in DOMAIN v}] :
        \A n \in DOMAIN v : ko[n] \in Orderings(DOMAIN v[n].entries)}

----------------------------------------------------------------------------
(* bash_script_drt.go: newBashScriptConfig *)

VariablesAttr == <<"v", "a", "r", "i", "a", "b", "l", "e", "s">>
\* The text of a decoding error of the tftypes library.
ErrText == <<"e", "r", "r">>

Diagnostic(summary, fmt, args, attribute) ==
    [Severity |-> "ERROR", Summary |-> summary,
     Detail |-> [fmt |-> fmt, args |-> args], Attribute |-> attribute]

\* raw: the request's DynamicValue.
\*   decode: "ok", or "unmarshal_error" / "as_error" when the value does not
\*           decode against bashScriptType;
\*   source: the "source" attribute;
\*   isObject: whether "variables" converts to a map of values;
\*   variables: the attributes of "variables" (name -> value).
Raw(decode, source, isObject, variables) ==
    [decode |-> decode, source |-> source, isObject |-> isObject,
     variables |-> variables]

bashScriptConfig(source, variables) == [Source |-> source, Variables |-> variables]

SchemaDiag ==
    Diagnostic("Invalid configuration",
               "The given configuration doesn't match the expected schema: %s.",
               <<ErrText>>, <<>>)

VariablesDiag ==
    Diagnostic("Invalid variables",
               "The \"variables\" argument must be an object with one attribute per variable you wish to declare for the Bash script.",
               <<>>, <<VariablesAttr>>)

EmptyNameDiag(name) ==
    Diagnostic("Invalid variable name",
               "The empty string is not a valid Bash variable name.",
               <<>>, <<VariablesAttr, name>>)

BadNameDiag(name) ==
    Diagnostic("Invalid variable name",
               "Cannot use %q as a Bash variable name.",
               <<GoQuote(name)>>, <<VariablesAttr, name>>)

FractionDiag(name, tenths) ==
    Diagnostic("Invalid variable value",
               "Can't use %s as value of %q: Bash doesn't support floating-point numbers.",
               <<FloatText(tenths), GoQuote(name)>>, <<VariablesAttr, name>>)

UnsupportedDiag(name) ==
    Diagnostic("Invalid variable value",
               "Invalid value for Bash variable %q: Bash only supports strings, whole numbers, lists of strings, and maps of strings.",
               <<GoQuote(name)>>, <<VariablesAttr, name>>)

checkVariable_NoIsInt(name, val) ==
    IF Len(name) = 0 THEN <<EmptyNameDiag(name)>>
    ELSE IF ~validVariableName(name) THEN <<BadNameDiag(name)>>
    ELSE CASE Is(val, "String") -> <<>>
           [] Is(val, "Number") -> <<>>
           [] Is(val, "ListOfString") -> <<>>
           [] Is(val, "MapOfString") -> <<>>
           [] OTHER -> <<UnsupportedDiag(name)>>

checkVariable_NoDefault(name, val) ==
    IF Len(name) = 0 THEN <<EmptyNameDiag(name)>>
    ELSE IF ~validVariableName(name) THEN <<BadNameDiag(name)>>
    ELSE CASE Is(val, "String") -> <<>>
           [] Is(val, "Number") ->
                IF ~IsInt(val.tenths) THEN <<FractionDiag(name, val.tenths)>>
                ELSE <<>>
           [] Is(val, "ListOfString") -> <<>>
           [] Is(val, "MapOfString") -> <<>>
           [] OTHER -> <<>>

checkVariable_NoNameCheck(name, val) ==
    IF Len(name) = 0 THEN <<EmptyNameDiag(name)>>
    ELSE CASE Is(val, "String") -> <<>>
           [] Is(val, "Number") ->
                IF ~IsInt(val.tenths) THEN <<FractionDiag(name, val.tenths)>>
                ELSE <<>>
           [] Is(val, "ListOfString") -> <<>>
           [] Is(val, "MapOfString") -> <<>>
           [] OTHER -> <<UnsupportedDiag(name)>>

checkVariable_NoContinue(name, val) ==
    (IF Len(name) = 0 THEN <<EmptyNameDiag(name)>>
     ELSE IF ~validVariableName(name) THEN <<BadNameDiag(name)>>
     ELSE <<>>)
    \o (CASE Is(val, "String") -> <<>>
          [] Is(val, "Number") ->
               IF ~IsInt(val.tenths) THEN <<FractionDiag(name, val.tenths)>>
               ELSE <<>>
          [] Is(val, "ListOfString") -> <<>>
          [] Is(val, "MapOfString") -> <<>>
          [] OTHER -> <<UnsupportedDiag(name)>>)

\* The diagnostics one iteration of the loop over ret.Variables appends.
\* val.As(&f) decodes every value for which Is(Number) holds, so the
\* "Failed to decode" branch is never taken.
checkVariable(name, val) ==
    IF Len(name) = 0 THEN <<EmptyNameDiag(name)>>
    ELSE IF ~validVariableName(name) THEN <<BadNameDiag(name)>>
    ELSE CASE Is(val, "String") -> <<>>
           [] Is(val, "Number") ->
                IF ~IsInt(val.tenths) THEN <<FractionDiag(name, val.tenths)>>
                ELSE <<>>
           [] Is(val, "ListOfString") -> <<>>
           [] Is(val, "MapOfString") -> <<>>
           [] OTHER -> <<UnsupportedDiag(name)>>

RECURSIVE checkVariables_StopAtFirst(_, _, _)
checkVariables_StopAtFirst(v, nameOrder, i) ==
    IF i > Len(nameOrder) THEN <<>>
    ELSE IF checkVariable(nameOrder[i], v[nameOrder[i]]) # <<>>
    THEN checkVariable(nameOrder[i], v[nameOrder[i]])
    ELSE checkVariables_StopAtFirst(v, nameOrder, i + 1)

RECURSIVE checkVariables(_, _, _)
checkVariables(v, nameOrder, i) ==
    IF i > Len(nameOrder) THEN <<>>
    ELSE checkVariable(nameOrder[i], v[nameOrder[i]])
         \o checkVariables(v, nameOrder, i + 1)

\* nameOrder: the order in which range visits ret.Variables.
newBashScriptConfig(raw, nameOrder) ==
    IF raw.decode # "ok"
    THEN [config |-> bashScriptConfig(<<>>, <<>>), diags |-> <<SchemaDiag>>]
    ELSE IF ~raw.isObject
    THEN [config |-> bashScriptConfig(raw.source, <<>>), diags |-> <<VariablesDiag>>]
    ELSE [config |-> bashScriptConfig(raw.source, raw.variables),
          diags |-> checkVariables(raw.variables, nameOrder, 1)]

\* The variables newBashScriptConfig ranges over for raw.
ConfigVariables(raw) ==
    IF raw.decode = "ok" /\ raw.isObject THEN raw.variables ELSE <<>>

\* variablesType: the object type rebuilt for the response.
variablesType(v) ==
    [n \in DOMAIN v |->
        CASE Is(v[n], "String") -> "String"
          [] Is(v[n], "Number") -> "Number"
          [] Is(v[n], "ListOfString") -> "ListOfString"
          [] Is(v[n], "MapOfString") -> "MapOfString"
          [] OTHER -> "DynamicPseudoType"]

\* bashScriptConfig.ResultObject / ResultDynamicValue
ResultDynamicValue(c, result) ==
    [source |-> c.Source, variables |-> c.Variables,
     variablesType |-> variablesType(c.Variables), result |-> result]

----------------------------------------------------------------------------
(* The provider's handlers for the bash_script data source *)

Request(typeName, config) == [TypeName |-> typeName, Config |-> config]

NoState == [source |-> <<>>, variables |-> <<>>, variablesType |-> <<>>,
            result |-> <<>>]

\* A handler's return values: error is the Go error ("" for nil); with an
\* error there is no response object.
Response(handler, error, diags, hasState, state) ==
    [handler |-> handler, error |-> error, Diagnostics |-> diags,
     hasState |-> hasState, State |-> state]

NoResponse == Response(None, "", <<>>, FALSE, NoState)

\* Provider.ValidateDataSourceConfig
ValidateDataSourceConfig(req, nameOrder) ==
    IF req.TypeName # "bash_script"
    THEN [response |-> Response("ValidateDataSourceConfig",
                                "unsupported data resource type", <<>>, FALSE, NoState),
          calls |-> <<>>]
    ELSE [response |-> Response("ValidateDataSourceConfig", "",
                                newBashScriptConfig(req.Config, nameOrder).diags,
                                FALSE, NoState),
          calls |-> <<"newBashScriptConfig">>]

ReadDataSource_IgnoreDiags(req, nameOrder, declOrder, keyOrders) ==
    IF req.TypeName # "bash_script"
    THEN [response |-> Response("ReadDataSource",
                                "unsupported data resource type", <<>>, FALSE, NoState),
          calls |-> <<>>]
    ELSE LET r == newBashScriptConfig(req.Config, nameOrder)
             varDecls == variablesToBashDecls(r.config.Variables, declOrder, keyOrders)
         IN  [response |-> Response("ReadDataSource", "", r.diags, TRUE,
                                    ResultDynamicValue(r.config, varDecls)),
              calls |-> <<"newBashScriptConfig", "variablesToBashDecls",
                          "ResultDynamicValue">>]

\* Provider.ReadDataSource.  nameOrder is the order in which the validator
\* ranges over the variables, declOrder and keyOrders the orders the encoder
\* meets.
ReadDataSource(req, nameOrder, declOrder, keyOrders) ==
    IF req.TypeName # "bash_script"
    THEN [response |-> Response("ReadDataSource",
                                "unsupported data resource type", <<>>, FALSE, NoState),
          calls |-> <<>>]
    ELSE LET r == newBashScriptConfig(req.Config, nameOrder)
         IN  IF Len(r.diags) # 0
             THEN [response |-> Response("ReadDataSource", "", r.diags, FALSE, NoState),
                   calls |-> <<"newBashScriptConfig">>]
             ELSE LET varDecls == variablesToBashDecls(r.config.Variables,
                                                       declOrder, keyOrders)
                  IN  [response |-> Response("ReadDataSource", "", r.diags, TRUE,
                                             ResultDynamicValue(r.config, varDecls)),
                       calls |-> <<"newBashScriptConfig", "variablesToBashDecls",
                                   "ResultDynamicValue">>]

----------------------------------------------------------------------------
(* Inputs *)

Names ==
    {<<>>, <<"1", "a", "b", "c">>, <<"_", "o", "k">>, <<"a", "1">>}

Values ==
    { StringVal(<<"i", "'", "x", " ", "\n">>),
      NumberVal(30), NumberVal(35),
      ListVal(<<>>),
      ListVal(<<<<"b", "'">>, <<"a">>>>),
      MapVal([k \in {<<"a">>, <<"b">>} |-> IF k = <<"a">> THEN <<"x">> ELSE <<"'", "y">>]),
      OtherVal("Bool"),
      OtherVal("DynamicPseudoType"),     \* null
      OtherVal("ListOfNumber"),
      OtherVal("MapOfBool"),
      OtherVal("Object") }               \* a nested structure

VariableSetsOver(N) ==
    UNION {[S -> Values] : S \in {T \in SUBSET N : Cardinality(T) <= MaxVars}}

VariableSets == VariableSetsOver(Names)

\* The encoder alone is also given a third well-formed name.
EncoderNames == Names \cup {<<"Z">>}

\* A script body, and one that starts with an interpreter line.
PlainSource == <<"e", "\n">>
ShebangSource == <<"#", "!", "/", "b", "\n", "e", "\n">>

\* Every variable set with the plain body, the sets of at most one variable
\* with the interpreter-line body too, and the requests that fail before
\* the variables are looked at.
Requests ==
    {Request("bash_script", Raw("ok", PlainSource, TRUE, v)) : v \in VariableSets}
    \cup {Request("bash_script", Raw("ok", ShebangSource, TRUE, v)) :
            v \in {w \in VariableSets : Cardinality(DOMAIN w) <= 1}}
    \cup {Request("bash_script", Raw(d, PlainSource, FALSE, <<>>)) :
            d \in {"ok", "unmarshal_error", "as_error"}}
    \cup {Request("other", Raw("ok", PlainSource, TRUE, <<>>))}

EncoderRequests ==
    {Request("bash_script", Raw("ok", <<>>, TRUE, v)) : v \in VariableSetsOver(EncoderNames)}

QuoteChars == {"'", "\\", " ", "\n", "a"}
NameChars == {"_", "a", "z", "A", "Z", "0", "9", "@", "[", "^", "{", "/", ":"}
FnInputs == StrsUpTo(QuoteChars, MaxLen) \cup StrsUpTo(NameChars, MaxLen)

----------------------------------------------------------------------------
(* State machine *)

NoDecls == [called |-> FALSE, text |-> <<>>]
NoFnOut == [fn |-> None, text |-> <<>>, bool |-> FALSE, val |-> OtherVal(None),
            diags |-> <<>>]

Idle ==
    /\ response = NoResponse
    /\ calls = <<>>
    /\ decls = NoDecls
    /\ fnOut = NoFnOut

\* The provider serving one request, which Terraform may send to either
\* handler any number of times.
Init ==
    /\ request \in Requests
    /\ fnIn = <<>>
    /\ Idle

ValidateDataSourceConfigCall ==
    /\ \E nameOrder \in Orderings(DOMAIN ConfigVariables(request.Config)) :
          LET out == ValidateDataSourceConfig(request, nameOrder)
          IN  /\ response' = out.response
              /\ calls' = out.calls
    /\ UNCHANGED <<request, decls, fnIn, fnOut>>

\* The encoder ranges over the variables only when it runs, that is when the
\* validator returned no diagnostics; otherwise no encoder order is drawn.
ReadDataSourceCall ==
    LET v == ConfigVariables(request.Config)
    IN  /\ \E nameOrder \in Orderings(DOMAIN v) :
           LET failed == Len(newBashScriptConfig(request.Config, nameOrder).diags) # 0
           IN  \E declOrder \in IF failed THEN {nameOrder} ELSE Orderings(DOMAIN v) :
               \E keyOrders \in IF failed THEN {[n \in DOMAIN v |-> <<>>]}
                                ELSE KeyOrderings(v) :
                  LET out == ReadDataSource(request, nameOrder, declOrder, keyOrders)
                  IN  /\ response' = out.response
                      /\ calls' = out.calls
        /\ UNCHANGED <<request, decls, fnIn, fnOut>>

Next == ValidateDataSourceConfigCall \/ ReadDataSourceCall

Spec == Init /\ [][Next]_vars

\* The encoder called directly on any variable set, validated or not.
InitEncoder ==
    /\ request \in EncoderRequests
    /\ fnIn = <<>>
    /\ Idle

VariablesToBashDeclsCall ==
    /\ \E declOrder \in Orderings(DOMAIN request.Config.variables),
          keyOrders \in KeyOrderings(request.Config.variables) :
          decls' = [called |-> TRUE,
                    text |-> variablesToBashDecls(request.Config.variables,
                                                  declOrder, keyOrders)]
    /\ UNCHANGED <<request, response, calls, fnIn, fnOut>>

NextEncoder == VariablesToBashDeclsCall

SpecEncoder == InitEncoder /\ [][NextEncoder]_vars

\* The string functions applied to any text.
InitFn ==
    /\ request = Request("bash_script", Raw("ok", <<>>, TRUE, <<>>))
    /\ fnIn \in FnInputs
    /\ Idle

BashQuoteStringCall ==
    /\ fnOut' = [NoFnOut EXCEPT !.fn = "bashQuoteString",
                                !.text = bashQuoteString(fnIn)]
    /\ UNCHANGED <<request, response, calls, decls, fnIn>>

ValidVariableNameCall ==
    /\ fnOut' = [NoFnOut EXCEPT !.fn = "validVariableName",
                                !.bool = validVariableName(fnIn)]
    /\ UNCHANGED <<request, response, calls, decls, fnIn>>

\* The validator on a single variable named fnIn.
NewBashScriptConfigCall ==
    /\ \E val \in {StringVal(<<"x">>), OtherVal("Bool")} :
          fnOut' = [NoFnOut EXCEPT
                      !.fn = "newBashScriptConfig",
                      !.val = val,
                      !.diags = newBashScriptConfig(
                                    Raw("ok", <<>>, TRUE, [n \in {fnIn} |-> val]),
                                    <<fnIn>>).diags]
    /\ UNCHANGED <<request, response, calls, decls, fnIn>>

NextFn == BashQuoteStringCall \/ ValidVariableNameCall \/ NewBashScriptConfigCall

SpecFn == InitFn /\ [][NextFn]_vars

----------------------------------------------------------------------------
(* How a shell reads text: the single-quote rules *)

\* The words a shell reads from text.  Between single quotes every character
\* is literal; outside them a single quote opens a quoted piece, a backslash
\* makes the next character literal, blanks and newlines separate words, and
\* adjacent pieces join into one word.  Any other unquoted character would
\* be subject to further shell rules, so the reading fails (ok = FALSE), as
\* it does on an unterminated quote.
RECURSIVE ShellRead(_, _, _, _, _, _)
ShellRead(text, i, quoted, started, cur, words) ==
    IF i > Len(text)
    THEN [ok |-> ~quoted, words |-> IF started THEN Append(words, cur) ELSE words]
    ELSE IF quoted
    THEN IF text[i] = "'"
         THEN ShellRead(text, i + 1, FALSE, TRUE, cur, words)
         ELSE ShellRead(text, i + 1, TRUE, TRUE, Append(cur, text[i]), words)
    ELSE IF text[i] = "'"
    THEN ShellRead(text, i + 1, TRUE, TRUE, cur, words)
    ELSE IF text[i] = "\\"
    THEN IF i + 1 > Len(text)
         THEN [ok |-> FALSE, words |-> words]
         ELSE ShellRead(text, i + 2, FALSE, TRUE, Append(cur, text[i + 1]), words)
    ELSE IF text[i] \in {" ", "\n"}
    THEN ShellRead(text, i + 1, FALSE, FALSE, <<>>,
                   IF started THEN Append(words, cur) ELSE words)
    ELSE [ok |-> FALSE, words |-> words]

ShellWords(text) == ShellRead(text, 1, FALSE, FALSE, <<>>, <<>>)

\* The identifier pattern [A-Za-z_][A-Za-z0-9_]*, over the characters the
\* inputs are drawn from.
PatternLetters == {"a", "b", "c", "k", "o", "x", "y", "z", "A", "Z", "_"}
PatternDigits == {"0", "1", "9"}

MatchesPattern(s) ==
    /\ s # <<>>
    /\ s[1] \in PatternLetters
    /\ \A i \in 2..Len(s) : s[i] \in PatternLetters \cup PatternDigits

\* The diagnostics of a list that point at variable name.
DiagsAbout(diags, name) ==
    {i \in DOMAIN diags : diags[i].Attribute = <<VariablesAttr, name>>}


\* How a shell reads a script, as far as statements go.  The reader is at
\* the start of a word, inside a word, inside single quotes, after a
\* backslash, or inside a comment; ShellStep is its move over character c.
\* A "#" that starts a word opens a comment that runs to the end of the line.
ShellStep(mode, c) ==
    CASE mode = "quote"   -> IF c = "'" THEN "word" ELSE "quote"
      [] mode = "escape"  -> "word"
      [] mode = "comment" -> IF c = "\n" THEN "start" ELSE "comment"
      [] c = "'"          -> "quote"
      [] c = "\\"         -> "escape"
      [] c \in {" ", "\n"} -> "start"
      [] c = "#" /\ mode = "start" -> "comment"
      [] OTHER            -> "word"

ShellModes == {"start", "word", "quote", "escape", "comment"}

\* The reader's mode after text[lo..hi], entered in mode.
RECURSIVE ShellModeOver(_, _, _, _)
ShellModeOver(text, lo, hi, mode) ==
    IF lo > hi THEN mode
    ELSE IF lo = hi THEN ShellStep(mode, text[lo])
    ELSE LET half == ShellModeOver(text, lo, (lo + hi) \div 2, mode)
         IN  IF half \in ShellModes
             THEN ShellModeOver(text, (lo + hi) \div 2 + 1, hi, half)
             ELSE half

\* The newlines that end a statement: those outside quotes and not escaped.
StatementEnds(text) ==
    {i \in DOMAIN text :
        /\ text[i] = "\n"
        /\ ShellModeOver(text, 1, i - 1, "start") \in {"start", "word", "comment"}}

\* The statements of a script, without their newlines.  ok is FALSE when
\* the text ends inside a quote or in a statement no newline terminates.
ShellStatements(text) ==
    LET ends == StatementEnds(text)
        kth(k) == CHOOSE e \in ends : Cardinality({x \in ends : x < e}) = k - 1
    IN  [ok |-> text = <<>> \/ Len(text) \in ends,
         statements |->
            [k \in 1..Cardinality(ends) |->
                SubSeq(text, IF k = 1 THEN 1 ELSE kth(k - 1) + 1, kth(k) - 1)]]

\* The positions of character c in s.
Positions(s, c) == {i \in DOMAIN s : s[i] = c}

Min(S) == CHOOSE x \in S : \A y \in S : x <= y
Max(S) == CHOOSE x \in S : \A y \in S : x >= y

\* The variable a statement of the declarations text is about: in
\* "declare -FLAGS NAME=..." the text between the second blank and the first
\* "=" after it; in the "# ERROR" comment the text between the double quotes.
StatementName(st) ==
    IF HasPrefix(st, <<"#">>)
    THEN SubSeq(st, Min(Positions(st, "\"")) + 1, Max(Positions(st, "\"")) - 1)
    ELSE LET second == Min(Positions(st, " ") \ {Min(Positions(st, " "))})
             eq == Min({i \in Positions(st, "=") : i > second})
         IN  SubSeq(st, second + 1, eq - 1)

\* s < t in bytewise lexicographic order.
LexLess(s, t) ==
    \E k \in 0..Len(s) :
        /\ k <= Len(t)
        /\ SubSeq(s, 1, k) = SubSeq(t, 1, k)
        /\ \/ k = Len(s) /\ k < Len(t)
           \/ k < Len(s) /\ k < Len(t) /\ Code(s[k + 1]) < Code(t[k + 1])

\* The number, in tenths, that a decimal literal [-]DIGITS[.DIGIT] denotes.
DigitValue(c) == CHOOSE d \in 0..9 : Digit(d) = c

RECURSIVE DigitsValue(_)
DigitsValue(s) ==
    IF s = <<>> THEN 0 ELSE 10 * DigitsValue(SubSeq(s, 1, Len(s) - 1)) + DigitValue(s[Len(s)])

IsDigits(s) == s # <<>> /\ \A i \in DOMAIN s : s[i] \in {Digit(d) : d \in 0..9}

\* An integer literal: an optional sign and digits, no fraction, no exponent.
IsIntegerLiteral(s) ==
    IF HasPrefix(s, <<"-">>) THEN IsDigits(Tail(s)) ELSE IsDigits(s)

LiteralTenths(s) ==
    LET neg == HasPrefix(s, <<"-">>)
        u == IF neg THEN Tail(s) ELSE s
        dot == Positions(u, ".")
        whole == IF dot = {} THEN u ELSE SubSeq(u, 1, Min(dot) - 1)
        frac == IF dot = {} THEN <<"0">> ELSE SubSeq(u, Min(dot) + 1, Len(u))
        a == 10 * DigitsValue(whole) + DigitsValue(frac)
    IN  IF neg THEN 0 - a ELSE a

\* The four value shapes bash can hold.
Supported(val) ==
    \/ val.typ = "String"
    \/ val.typ = "Number" /\ val.tenths % 10 = 0
    \/ val.typ = "ListOfString"
    \/ val.typ = "MapOfString"

ValidSet(v) == \A n \in DOMAIN v : MatchesPattern(n) /\ Supported(v[n])

\* Whether statement st declares variable n with the form of its value val.
DeclaresAs(st, n, val) ==
    LET flags == CASE val.typ = "String" -> <<"-", "r">>
                   [] val.typ = "Number" -> <<"-", "r", "i">>
                   [] val.typ = "ListOfString" -> <<"-", "r", "a">>
                   [] val.typ = "MapOfString" -> <<"-", "r", "A">>
        head == <<"d", "e", "c", "l", "a", "r", "e", " ">> \o flags \o <<" ">>
                    \o n \o <<"=">>
        rest == SubSeq(st, Len(head) + 1, Len(st))
    IN  /\ HasPrefix(st, head)
        /\ CASE val.typ = "String" ->
                  Len(rest) >= 2 /\ rest[1] = "'" /\ rest[Len(rest)] = "'"
             [] val.typ = "Number" ->
                  IsIntegerLiteral(rest) /\ LiteralTenths(rest) = val.tenths
             [] OTHER ->
                  Len(rest) >= 2 /\ rest[1] = "(" /\ rest[Len(rest)] = ")"

\* The script the data source is documented to return: the declarations
\* placed after a leading interpreter line of source, else before source.
Merge(source, declarations) ==
    IF HasPrefix(source, <<"#", "!">>)
    THEN LET nl == Positions(source, "\n")
             cut == IF nl = {} THEN Len(source) ELSE Min(nl)
         IN  SubSeq(source, 1, cut) \o declarations
                 \o SubSeq(source, cut + 1, Len(source))
    ELSE declarations \o source

\* The texts variablesToBashDecls can return for the variables v.
PossibleDecls(v) ==
    {variablesToBashDecls(v, o, ko) : o \in Orderings(DOMAIN v), ko \in KeyOrderings(v)}

Range(s) == {s[i] : i \in DOMAIN s}

----------------------------------------------------------------------------
(* Claims *)

\* C1: for every string s, bashQuoteString(s) read under the shell's
\* single-quote rules is exactly one word, and that word is s.
C1_QuoteRoundTrip ==
    fnOut.fn = "bashQuoteString" =>
        ShellWords(fnOut.text) = [ok |-> TRUE, words |-> <<fnIn>>]

\* A string holding a single quote, a space and a newline has been quoted.
C1_Witness ==
    /\ fnOut.fn = "bashQuoteString"
    /\ fnIn = <<"'", " ", "\n">>
    /\ fnOut.text = <<"'", "'", "\\", "'", "'", " ", "\n", "'">>

C1_WitnessEmpty ==
    /\ fnOut.fn = "bashQuoteString"
    /\ fnIn = <<>>
    /\ fnOut.text = <<"'", "'">>

\* C8: validVariableName(s) holds exactly when s matches
\* [A-Za-z_][A-Za-z0-9_]*, and the validator reports "Invalid variable name"
\* for a variable exactly when its name is empty or fails the pattern, with
\* one message for the empty name and another, citing the name, otherwise.
C8_NameValidation ==
    /\ fnOut.fn = "validVariableName" => (fnOut.bool <=> MatchesPattern(fnIn))
    /\ fnOut.fn = "newBashScriptConfig" =>
          LET nameDiags == {i \in DOMAIN fnOut.diags :
                               fnOut.diags[i].Summary = "Invalid variable name"}
          IN  /\ (nameDiags # {}) <=> ~MatchesPattern(fnIn)
              /\ Cardinality(nameDiags) <= 1
              /\ \A i \in nameDiags :
                    /\ fnOut.diags[i].Severity = "ERROR"
                    /\ fnOut.diags[i].Attribute = <<VariablesAttr, fnIn>>
                    /\ fnIn = <<>> =>
                          /\ fnOut.diags[i].Detail.fmt =
                               "The empty string is not a valid Bash variable name."
                          /\ fnOut.diags[i].Detail.args = <<>>
                    /\ fnIn # <<>> =>
                          /\ fnOut.diags[i].Detail.fmt =
                               "Cannot use %q as a Bash variable name."
                          /\ fnOut.diags[i].Detail.args = <<GoQuote(fnIn)>>

\* The validator has rejected a name that starts with a digit.
C8_Witness ==
    /\ fnOut.fn = "newBashScriptConfig"
    /\ fnIn = <<"0", "a">>
    /\ Len(fnOut.diags) = 1
    /\ fnOut.diags[1].Summary = "Invalid variable name"

C8_WitnessAccepted ==
    /\ fnOut.fn = "validVariableName"
    /\ fnIn = <<"_", "a", "9">>
    /\ fnOut.bool

\* C2: two calls of variablesToBashDecls on the same variables return the
\* same text, whatever order the maps are iterated in.
C2_Deterministic ==
    [][decls.called /\ decls'.called => decls'.text = decls.text]_vars

\* C3: the result of a successful ReadDataSource is the declarations merged
\* with source: after the interpreter line when source starts with "#!",
\* before the whole source otherwise.
C3_ResultIsMerge ==
    response.hasState =>
        response.State.result \in
            {Merge(request.Config.source, d) :
                d \in PossibleDecls(request.Config.variables)}

\* C4: for an empty variable set the declarations are empty and the result
\* of ReadDataSource is the source unchanged.
C4_EmptyVariables ==
    /\ (decls.called /\ DOMAIN request.Config.variables = {}) => decls.text = <<>>
    /\ (response.hasState /\ DOMAIN request.Config.variables = {}) =>
          response.State.result = request.Config.source

\* C5: when newBashScriptConfig yields a diagnostic, ReadDataSource returns
\* the diagnostics and no State, without calling the encoder; a State comes
\* only with an empty diagnostics list.
C5_NoStateOnDiagnostics ==
    (response.handler = "ReadDataSource" /\ response.error = "") =>
        LET yields == {newBashScriptConfig(request.Config, o).diags :
                          o \in Orderings(DOMAIN ConfigVariables(request.Config))}
        IN  /\ response.Diagnostics \in yields
            /\ (\E d \in yields : Len(d) > 0) =>
                  /\ ~response.hasState
                  /\ response.State = NoState
                  /\ Len(response.Diagnostics) > 0
                  /\ "variablesToBashDecls" \notin Range(calls)
            /\ response.hasState => response.Diagnostics = <<>>

\* ReadDataSource has refused a request with two faulty variables.
C5_Witness ==
    /\ response.handler = "ReadDataSource"
    /\ Len(response.Diagnostics) = 2
    /\ ~response.hasState
    /\ calls = <<"newBashScriptConfig">>

\* C6: for a valid variable set the declarations text is exactly one
\* newline-terminated statement per variable, of the form its value's shape
\* decides: declare -r NAME='...', declare -ri NAME=N, declare -ra NAME=(...),
\* declare -rA NAME=(...).
C6_OneDeclarationPerVariable ==
    (decls.called /\ ValidSet(request.Config.variables)) =>
        LET v == request.Config.variables
            r == ShellStatements(decls.text)
        IN  /\ r.ok
            /\ Len(r.statements) = Cardinality(DOMAIN v)
            /\ \A n \in DOMAIN v :
                  Cardinality({i \in DOMAIN r.statements :
                                   DeclaresAs(r.statements[i], n, v[n])}) = 1

\* The encoder has declared a number and a map of strings.
C6_Witness ==
    /\ decls.called
    /\ ValidSet(request.Config.variables)
    /\ DOMAIN request.Config.variables = {<<"_", "o", "k">>, <<"a", "1">>}
    /\ request.Config.variables[<<"_", "o", "k">>].typ = "Number"
    /\ request.Config.variables[<<"a", "1">>].typ = "MapOfString"
    /\ HasPrefix(decls.text, <<"d", "e", "c", "l", "a", "r", "e", " ", "-", "r", "i", " ",
                               "_", "o", "k", "=", "3", "\n">>)

C9_FractionalNumber ==
    (response.handler # None /\ response.error = "") =>
        \A n \in DOMAIN ConfigVariables(request.Config) :
            LET val == ConfigVariables(request.Config)[n]
                about == DiagsAbout(response.Diagnostics, n)
            IN  (MatchesPattern(n) /\ val.typ = "Number") =>
                    IF val.tenths % 10 # 0
                    THEN /\ Cardinality(about) = 1
                         /\ ~response.hasState
                         /\ \A i \in about :
                               LET d == response.Diagnostics[i]
                               IN  /\ d.Severity = "ERROR"
                                   /\ Len(d.Detail.args) = 2
                                   /\ LiteralTenths(d.Detail.args[1]) = val.tenths
                                   /\ d.Detail.args[2] = <<"\"">> \o n \o <<"\"">>
                    ELSE about = {}

\* ReadDataSource has refused a request whose only fault is the number 3.5.
C9_Witness ==
    /\ response.handler = "ReadDataSource"
    /\ ~response.hasState
    /\ Len(response.Diagnostics) = 1
    /\ response.Diagnostics[1].Detail.args = <<<<"3", ".", "5">>, <<"\"", "a", "1", "\"">>>>
    /\ request.Config.variables[<<"a", "1">>] = NumberVal(35)

\* C10: a validly named variable gets no diagnostic exactly when its value
\* is a string, a whole number, a list of strings or a map of strings; a
\* value of any other type gets exactly one "unsupported value" error that
\* names the variable.
C10_SupportedShapes ==
    (response.handler # None /\ response.error = "") =>
        \A n \in DOMAIN ConfigVariables(request.Config) :
            LET val == ConfigVariables(request.Config)[n]
                about == DiagsAbout(response.Diagnostics, n)
            IN  MatchesPattern(n) =>
                    /\ (about = {}) <=> Supported(val)
                    /\ val.typ \notin {"String", "Number", "ListOfString", "MapOfString"} =>
                          /\ Cardinality(about) = 1
                          /\ \A i \in about :
                                LET d == response.Diagnostics[i]
                                IN  /\ d.Severity = "ERROR"
                                    /\ d.Summary = "Invalid variable value"
                                    /\ d.Detail.fmt = "Invalid value for Bash variable %q: Bash only supports strings, whole numbers, lists of strings, and maps of strings."
                                    /\ d.Detail.args = <<<<"\"">> \o n \o <<"\"">>>>

\* The validator has rejected a null and a list of numbers, each once.
C10_Witness ==
    /\ response.handler = "ValidateDataSourceConfig"
    /\ DOMAIN request.Config.variables = {<<"_", "o", "k">>, <<"a", "1">>}
    /\ request.Config.variables[<<"_", "o", "k">>].typ = "DynamicPseudoType"
    /\ request.Config.variables[<<"a", "1">>].typ = "ListOfNumber"
    /\ Len(response.Diagnostics) = 2

\* A response of either handler that carries the validator's verdict.
Validated == response.handler # None /\ response.error = ""

\* The checks a variable fails.
NameFails(n) == ~MatchesPattern(n)
ValueFails(val) == ~Supported(val)

C12_ValidationDeterministic ==
    [][(Validated /\ response'.handler # None /\ response'.error = "")
          => response'.Diagnostics = response.Diagnostics]_vars

\* The texts ws joined by single spaces, with none before or after.
RECURSIVE JoinSpace(_)
JoinSpace(ws) ==
    IF Len(ws) = 0 THEN <<>>
    ELSE IF Len(ws) = 1 THEN ws[1]
    ELSE JoinSpace(SubSeq(ws, 1, Len(ws) - 1)) \o <<" ">> \o ws[Len(ws)]

\* The positions of the statements sts that name variable n.
StatementsNaming(sts, n) == {i \in DOMAIN sts : StatementName(sts[i]) = n}

\* C13: the declaration of a list of strings is "declare -ra NAME=(" then
\* the quoted elements in list order separated by single spaces, with no
\* leading or trailing space, then ")"; an empty list gives "()"; read back
\* as shell words the body is the list.
C13_ListBody ==
    decls.called =>
        \A n \in DOMAIN request.Config.variables :
            LET val == request.Config.variables[n]
                sts == ShellStatements(decls.text).statements
                body == JoinSpace([i \in DOMAIN val.elems |->
                                       bashQuoteString(val.elems[i])])
            IN  val.typ = "ListOfString" =>
                  /\ ShellWords(body) = [ok |-> TRUE, words |-> val.elems]
                  /\ Len(val.elems) = 0 => body = <<>>
                  /\ Cardinality(StatementsNaming(sts, n)) = 1
                  /\ \A i \in StatementsNaming(sts, n) :
                        sts[i] =
                            <<"d", "e", "c", "l", "a", "r", "e", " ", "-", "r", "a", " ">>
                                \o n \o <<"=", "(">> \o body \o <<")">>

\* The encoder has declared an empty list and a list of two elements, one
\* of which holds a quote.
C13_Witness ==
    /\ decls.called
    /\ \E n, k \in DOMAIN request.Config.variables :
          /\ request.Config.variables[n].typ = "ListOfString"
          /\ request.Config.variables[k].typ = "ListOfString"
          /\ Len(request.Config.variables[n].elems) = 0
          /\ Len(request.Config.variables[k].elems) = 2
          /\ \E i \in StatementsNaming(ShellStatements(decls.text).statements, k) :
                Len(ShellWords(SubSeq(ShellStatements(decls.text).statements[i], Len(k) + 15,
                                      Len(ShellStatements(decls.text).statements[i]) - 1)).words) = 2

\* C14: the declaration of a map of strings is "declare -rA NAME=(" then,
\* for the entries in some order, each entry's quoted key, a space and its
\* quoted value, the pairs separated by single spaces, then ")": every
\* entry appears as exactly one adjacent pair and nothing else appears.
C14_MapBody ==
    decls.called =>
        \A n \in DOMAIN request.Config.variables :
            LET val == request.Config.variables[n]
                sts == ShellStatements(decls.text).statements
                m == val.entries
                pairs(o) == [i \in 1..(2 * Len(o)) |->
                                IF i % 2 = 1 THEN bashQuoteString(o[(i + 1) \div 2])
                                ELSE bashQuoteString(m[o[i \div 2]])]
            IN  val.typ = "MapOfString" =>
                  /\ Cardinality(StatementsNaming(sts, n)) = 1
                  /\ \A i \in StatementsNaming(sts, n) :
                        \E o \in Orderings(DOMAIN m) :
                            sts[i] =
                                <<"d", "e", "c", "l", "a", "r", "e", " ", "-", "r", "A", " ">>
                                    \o n \o <<"=", "(">> \o JoinSpace(pairs(o)) \o <<")">>

\* The encoder has declared a map of two entries with key b before key a.
C14_Witness ==
    /\ decls.called
    /\ \E n \in DOMAIN request.Config.variables :
          /\ request.Config.variables[n].typ = "MapOfString"
          /\ Cardinality(DOMAIN request.Config.variables[n].entries) = 2
          /\ \E i \in StatementsNaming(ShellStatements(decls.text).statements, n) :
                ShellStatements(decls.text).statements[i] =
                    <<"d", "e", "c", "l", "a", "r", "e", " ", "-", "r", "A", " ">>
                        \o n \o <<"=", "(", "'", "b", "'", " ", "'", "'", "\\", "'", "'",
                                  "y", "'", " ", "'", "a", "'", " ", "'", "x", "'", ")">>

\* The value shapes the encoder's switch has an arm for.
Encodable(val) == val.typ \in {"String", "Number", "ListOfString", "MapOfString"}

\* C15: the encoder, given a value of a shape it has no arm for, writes in
\* that variable's place one comment line "# ERROR: ..." naming the
\* variable, and still writes a declaration for every other variable, all
\* lines in ascending order of name.
C15_ErrorComment ==
    decls.called =>
        LET v == request.Config.variables
            r == ShellStatements(decls.text)
            name(i) == StatementName(r.statements[i])
            declares(st, n, val) ==
                HasPrefix(st, <<"d", "e", "c", "l", "a", "r", "e", " ", "-", "r">>
                                \o (CASE val.typ = "String" -> <<>>
                                      [] val.typ = "Number" -> <<"i">>
                                      [] val.typ = "ListOfString" -> <<"a">>
                                      [] val.typ = "MapOfString" -> <<"A">>)
                                \o <<" ">> \o n \o <<"=">>)
        IN  /\ r.ok
            /\ Len(r.statements) = Cardinality(DOMAIN v)
            /\ \A i, j \in DOMAIN r.statements : i < j => LexLess(name(i), name(j))
            /\ \A n \in DOMAIN v :
                  /\ Cardinality(StatementsNaming(r.statements, n)) = 1
                  /\ \A i \in StatementsNaming(r.statements, n) :
                        IF Encodable(v[n])
                        THEN declares(r.statements[i], n, v[n])
                        ELSE r.statements[i] =
                                 <<"#", " ", "E", "R", "R", "O", "R", ":", " ",
                                   "D", "o", "n", "'", "t", " ", "k", "n", "o", "w", " ",
                                   "h", "o", "w", " ", "t", "o", " ",
                                   "s", "e", "r", "i", "a", "l", "i", "z", "e", " ", "\"">>
                                 \o n \o <<"\"", " ", "f", "o", "r", " ", "b", "a", "s", "h">>

\* The encoder has written the declaration of the string "_ok" and then an
\* error comment for the boolean "a1".
C15_Witness ==
    /\ decls.called
    /\ DOMAIN request.Config.variables = {<<"_", "o", "k">>, <<"a", "1">>}
    /\ request.Config.variables[<<"_", "o", "k">>].typ = "String"
    /\ request.Config.variables[<<"a", "1">>].typ = "Bool"
    /\ Len(ShellStatements(decls.text).statements) = 2
    /\ HasPrefix(ShellStatements(decls.text).statements[2], <<"#", " ", "E", "R", "R", "O", "R">>)

\* The text of statement st after its first "=".
AfterEquals(st) == SubSeq(st, Min(Positions(st, "=")) + 1, Len(st))

\* C16: whenever ReadDataSource returns a State, its result holds no
\* "# ERROR" comment line, every name it declares matches
\* [A-Za-z_][A-Za-z0-9_]*, and what follows every "declare -ri NAME=" is
\* an integer literal.
C16_ResultWellFormed ==
    (response.handler = "ReadDataSource" /\ response.hasState) =>
        LET r == ShellStatements(response.State.result)
            declare == <<"d", "e", "c", "l", "a", "r", "e", " ", "-", "r">>
            declared == {i \in DOMAIN r.statements : HasPrefix(r.statements[i], declare)}
        IN  /\ ValidSet(request.Config.variables)
            /\ r.ok
            /\ {StatementName(r.statements[i]) : i \in declared}
                   = DOMAIN request.Config.variables
            /\ \A i \in DOMAIN r.statements :
                  ~HasPrefix(r.statements[i], <<"#", " ", "E", "R", "R", "O", "R">>)
            /\ \A i \in declared :
                  /\ MatchesPattern(StatementName(r.statements[i]))
                  /\ HasPrefix(r.statements[i], declare \o <<"i", " ">>)
                        => IsIntegerLiteral(AfterEquals(r.statements[i]))

\* ReadDataSource has returned a State that declares the whole number "_ok"
\* and a second variable.
C16_Witness ==
    /\ response.handler = "ReadDataSource"
    /\ response.hasState
    /\ Cardinality(DOMAIN request.Config.variables) = 2
    /\ <<"_", "o", "k">> \in DOMAIN request.Config.variables
    /\ request.Config.variables[<<"_", "o", "k">>].typ = "Number"
    /\ HasPrefix(response.State.result,
                 <<"d", "e", "c", "l", "a", "r", "e", " ", "-", "r", "i", " ",
                   "_", "o", "k", "=", "3", "\n">>)

\* C17: the validator gives each variable at most one diagnostic: for an
\* empty name the empty-name one, for another invalid name the bad-name
\* one and never one about its value, otherwise one exactly when the value
\* is unsupported; so the diagnostics are as many as the failing variables.
C17_OnePerVariable ==
    (Validated /\ request.Config.decode = "ok" /\ request.Config.isObject) =>
        LET v == request.Config.variables
            d == response.Diagnostics
            failing == {n \in DOMAIN v : NameFails(n) \/ ValueFails(v[n])}
        IN  /\ Len(d) = Cardinality(failing)
            /\ \A n \in DOMAIN v :
                  /\ Cardinality(DiagsAbout(d, n)) = IF n \in failing THEN 1 ELSE 0
                  /\ \A i \in DiagsAbout(d, n) :
                        /\ Len(n) = 0 =>
                              /\ d[i].Summary = "Invalid variable name"
                              /\ d[i].Detail.args = <<>>
                        /\ (Len(n) # 0 /\ NameFails(n)) =>
                              /\ d[i].Summary = "Invalid variable name"
                              /\ d[i].Detail.args = <<GoQuote(n)>>
                        /\ ~NameFails(n) => d[i].Summary = "Invalid variable value"

\* The validator has judged an empty-named and a badly named variable,
\* both holding unsupported values.
C17_Witness ==
    /\ response.handler = "ValidateDataSourceConfig"
    /\ request.Config.decode = "ok"
    /\ request.Config.isObject
    /\ DOMAIN request.Config.variables = {<<>>, <<"1", "a", "b", "c">>}
    /\ request.Config.variables[<<>>].typ = "MapOfBool"
    /\ request.Config.variables[<<"1", "a", "b", "c">>].typ = "Number"
    /\ request.Config.variables[<<"1", "a", "b", "c">>].tenths = 35
    /\ Len(response.Diagnostics) = 2

====
